---------------------------- MODULE Spec2Model ----------------------------
(***************************************************************************)
(* Model of the combined-metrics aggregation of CombinedMathScreen          *)
(* (apps/mobile/src/screens/VrmDashboardScreen.tsx, previewGraph), of the   *)
(* LineChart component (apps/mobile/src/components/LineChart.tsx) and of    *)
(* the ApiClient of packages/api-client.                                    *)
(*                                                                         *)
(* JavaScript numbers are modelled as records: a finite double is           *)
(* [k |-> "num", v |-> n] with n an integer of magnitude <= MAX_VALUE, and  *)
(* null, NaN, Infinity and -Infinity are the four other kinds.  Arithmetic  *)
(* follows IEEE 754: a result beyond MAX_VALUE overflows to an infinity,    *)
(* Infinity * 0 and Infinity - Infinity are NaN, NaN is absorbing.          *)
(***************************************************************************)
EXTENDS Integers, Sequences, FiniteSets, TLC

\* Largest finite magnitude of the number model (stands for Number.MAX_VALUE).
MAX_VALUE == 5

\* Most points the backend returns over all column requests of one preview.
MaxPoints == 3

\* Most user edits (scale text, include toggles, source chips) in one behaviour.
MaxEdits == 1

\* CombinedMathScreen has four configurable columns.
NumColumns == 4

Cols == 1..NumColumns

-----------------------------------------------------------------------------
(* JavaScript values *)

Null == [k |-> "null", v |-> 0]

NaN == [k |-> "NaN", v |-> 0]

PosInf == [k |-> "Infinity", v |-> 0]

NegInf == [k |-> "-Infinity", v |-> 0]

\* A double computed from the exact integer n: overflow gives an infinity.
Num(n) ==
  IF n > MAX_VALUE THEN PosInf
  ELSE IF n < -MAX_VALUE THEN NegInf
  ELSE [k |-> "num", v |-> n]

IsNull(x) == x.k = "null"

\* Number.isNaN
IsNaN(x) == x.k = "NaN"

\* Number.isFinite
IsFinite(x) == x.k = "num"

IsInf(x) == x.k \in {"Infinity", "-Infinity"}

\* Sign of a non-NaN, non-null number: -1, 0 or 1.
Sign(x) ==
  IF x.k = "Infinity" THEN 1
  ELSE IF x.k = "-Infinity" THEN -1
  ELSE IF x.v > 0 THEN 1 ELSE IF x.v < 0 THEN -1 ELSE 0

\* a * b on doubles.
Mul(a, b) ==
  IF IsNaN(a) \/ IsNaN(b) THEN NaN
  ELSE IF IsInf(a) \/ IsInf(b)
    THEN IF Sign(a) * Sign(b) = 0 THEN NaN
         ELSE IF Sign(a) * Sign(b) > 0 THEN PosInf ELSE NegInf
  ELSE Num(a.v * b.v)

\* a + b on doubles.
Add(a, b) ==
  IF IsNaN(a) \/ IsNaN(b) THEN NaN
  ELSE IF IsInf(a) /\ IsInf(b) THEN (IF a = b THEN a ELSE NaN)
  ELSE IF IsInf(a) THEN a
  ELSE IF IsInf(b) THEN b
  ELSE Num(a.v + b.v)

\* a ?? b
Coalesce(a, b) == IF IsNull(a) THEN b ELSE a

-----------------------------------------------------------------------------
(* Conversions *)

\* Date.parse on the timestamp strings the backend is modelled to send: two
\* spellings of the same instant, two later instants, and a string that is
\* no date.  The empty string never reaches Date.parse (previewGraph skips a
\* falsy ts first).
DateParse(s) ==
  CASE s = "1970-01-01T00:00:01Z" -> Num(1)
    [] s = "1970-01-01T00:00:01.000Z" -> Num(1)
    [] s = "1970-01-01T00:00:02Z" -> Num(2)
    [] s = "1970-01-01T00:00:03Z" -> Num(3)
    [] OTHER -> NaN

\* The texts a user is modelled to type into a column's Scale input.  "99999"
\* stands for a run of more than 308 digits, which parses to Infinity.
ScaleTexts ==
  {"", "-", "0", "2", "-1", "2.", "99999", "Infinity", "2x"}

\* /^-?\d*(\.\d*)?$/.test(value) on those texts.
ScaleRegexTest(s) ==
  s \in {"", "-", ".", "0", "1", "2", "-1", "2.", "99999"}

\* Number.parseFloat on those texts: the longest numeric prefix, else NaN.
ParseFloat(s) ==
  CASE s = "0" -> Num(0)
    [] s = "1" -> Num(1)
    [] s \in {"2", "2.", "2x"} -> Num(2)
    [] s = "-1" -> Num(-1)
    [] s \in {"99999", "Infinity"} -> PosInf
    [] OTHER -> NaN

\* Factor without the Number.isFinite check.
FactorUnchecked(scaleText) ==
  ParseFloat(IF scaleText = "" THEN "1" ELSE scaleText)

\* const scale = Number.parseFloat(columns[index].scale || '1');
\* const factor = Number.isFinite(scale) ? scale : 1;
Factor(scaleText) ==
  LET scale == ParseFloat(IF scaleText = "" THEN "1" ELSE scaleText)
  IN  IF IsFinite(scale) THEN scale ELSE Num(1)

-----------------------------------------------------------------------------
(* previewGraph: merge, scale, forward-fill, sum *)

\* Index of the pointMap entry with key ts, 0 when there is none.
KeyIndex(pointMap, ts) ==
  IF \E i \in 1..Len(pointMap) : pointMap[i].ts = ts
    THEN CHOOSE i \in 1..Len(pointMap) : pointMap[i].ts = ts
    ELSE 0

\* MergePoint storing the raw sample, the factor forgotten.
MergePointUnscaled(pointMap, index, factor, point) ==
  IF point.ts = "" THEN pointMap
  ELSE IF IsNaN(DateParse(point.ts)) THEN pointMap
  ELSE
    LET withKey ==
          IF KeyIndex(pointMap, point.ts) = 0
            THEN Append(pointMap,
                        [ts |-> point.ts, time |-> DateParse(point.ts),
                         values |-> [c \in Cols |-> Null]])
            ELSE pointMap
        at == KeyIndex(withKey, point.ts)
        raw == Coalesce(point.left, Coalesce(point.right, Null))
        scaled == IF IsNull(raw) \/ IsNaN(raw) THEN Null ELSE raw
    IN  [withKey EXCEPT ![at].values[index] = scaled]

\* The body of response.points.forEach for one point of column `index`.
\* pointMap is a JavaScript Map: a sequence of entries in insertion order,
\* at most one per key (the ts string).
MergePoint(pointMap, index, factor, point) ==
  IF point.ts = "" THEN pointMap
  ELSE IF IsNaN(DateParse(point.ts)) THEN pointMap
  ELSE
    LET withKey ==
          IF KeyIndex(pointMap, point.ts) = 0
            THEN Append(pointMap,
                        [ts |-> point.ts, time |-> DateParse(point.ts),
                         values |-> [c \in Cols |-> Null]])
            ELSE pointMap
        at == KeyIndex(withKey, point.ts)
        raw == Coalesce(point.left, Coalesce(point.right, Null))
        scaled == IF IsNull(raw) \/ IsNaN(raw) THEN Null ELSE Mul(raw, factor)
    IN  [withKey EXCEPT ![at].values[index] = scaled]

\* response.points.forEach(...) for the response of column `index`.
RECURSIVE MergeResponse(_, _, _, _)
MergeResponse(pointMap, index, factor, points) ==
  IF points = <<>> THEN pointMap
  ELSE MergeResponse(MergePoint(pointMap, index, factor, Head(points)),
                     index, factor, Tail(points))

\* responses.forEach(...): a null response (column without KPI) is skipped.
\* A response is [present |-> BOOLEAN, points |-> sequence of points].
RECURSIVE MergeResponses(_, _, _, _)
MergeResponses(pointMap, responses, cols, index) ==
  IF index > NumColumns THEN pointMap
  ELSE IF ~responses[index].present
    THEN MergeResponses(pointMap, responses, cols, index + 1)
  ELSE MergeResponses(
         MergeResponse(pointMap, index, Factor(cols[index].scale),
                       responses[index].points),
         responses, cols, index + 1)

\* Insert entry e into the sorted sequence s after every entry whose time is
\* not larger (a.time - b.time <= 0 keeps the earlier entry first).
RECURSIVE InsertByTime(_, _)
InsertByTime(s, e) ==
  IF s = <<>> THEN <<e>>
  ELSE IF Head(s).time.v - e.time.v <= 0
    THEN <<Head(s)>> \o InsertByTime(Tail(s), e)
    ELSE <<e>> \o s

\* Array.from(pointMap.values()).sort((a, b) => a.time - b.time): a stable
\* sort, entries of equal time keep their insertion order.
RECURSIVE SortByTime(_)
SortByTime(entries) ==
  IF entries = <<>> THEN <<>>
  ELSE InsertByTime(SortByTime(SubSeq(entries, 1, Len(entries) - 1)),
                    entries[Len(entries)])

\* FillEntry taking the fallback from column 1's last value for every column.
FillEntryShared(values, lastValues) ==
  [c \in Cols |->
     IF IsNull(values[c]) \/ IsNaN(values[c])
       THEN Coalesce(lastValues[1], Null)
       ELSE values[c]]

\* entry.values.map(...) of the forward-fill pass: the filled values of one
\* entry, given lastValues before it.
FillEntry(values, lastValues) ==
  [c \in Cols |->
     IF IsNull(values[c]) \/ IsNaN(values[c])
       THEN Coalesce(lastValues[c], Null)
       ELSE values[c]]

\* NextLast remembering a gap as well: lastValues[idx] = value on every entry.
NextLastAlways(values, lastValues) ==
  [c \in Cols |-> IF IsNaN(values[c]) THEN Null ELSE values[c]]

\* NextLast that never remembers: lastValues stays all null, no gap is filled.
NextLastNever(values, lastValues) == lastValues

\* lastValues after an entry.
NextLast(values, lastValues) ==
  [c \in Cols |->
     IF IsNull(values[c]) \/ IsNaN(values[c]) THEN lastValues[c] ELSE values[c]]

\* sorted.forEach(...) of the forward-fill pass.
RECURSIVE ForwardFill(_, _)
ForwardFill(sorted, lastValues) ==
  IF sorted = <<>> THEN <<>>
  ELSE <<[Head(sorted) EXCEPT !.values = FillEntry(Head(sorted).values, lastValues)]>>
       \o ForwardFill(Tail(sorted), NextLast(Head(sorted).values, lastValues))

\* SumEntry with the total starting as 0 instead of null.
RECURSIVE SumEntryFromZero(_, _, _, _)
SumEntryFromZero(values, includes, idx, total) ==
  IF idx > Len(includes) THEN (IF IsNull(total) THEN Num(0) ELSE total)
  ELSE IF ~includes[idx] THEN SumEntryFromZero(values, includes, idx + 1, total)
  ELSE IF IsNull(values[idx]) \/ IsNaN(values[idx])
    THEN SumEntryFromZero(values, includes, idx + 1, total)
  ELSE SumEntryFromZero(values, includes, idx + 1,
                        IF IsNull(total) THEN values[idx] ELSE Add(total, values[idx]))

\* calcIncludes.forEach(...) for one entry: total starts as null.
RECURSIVE SumEntry(_, _, _, _)
SumEntry(values, includes, idx, total) ==
  IF idx > Len(includes) THEN total
  ELSE IF ~includes[idx] THEN SumEntry(values, includes, idx + 1, total)
  ELSE IF IsNull(values[idx]) \/ IsNaN(values[idx])
    THEN SumEntry(values, includes, idx + 1, total)
  ELSE SumEntry(values, includes, idx + 1,
                IF IsNull(total) THEN values[idx] ELSE Add(total, values[idx]))

\* `sorted` before the forward-fill pass.
MergedEntries(responses, cols) ==
  SortByTime(MergeResponses(<<>>, responses, cols, 1))

\* `sorted` after the forward-fill pass; lastValues starts as all null.
SortedEntries(responses, cols) ==
  ForwardFill(MergedEntries(responses, cols), [c \in Cols |-> Null])

ColumnId(index) ==
  CASE index = 1 -> "column-0"
    [] index = 2 -> "column-1"
    [] index = 3 -> "column-2"
    [] index = 4 -> "column-3"

\* ChartSeriesOf dropping the entries at which the column has no value.
ChartSeriesOfSparse(sorted) ==
  [index \in Cols |->
     LET kept == SelectSeq(sorted, LAMBDA e : ~IsNull(e.values[index]))
     IN  [id |-> ColumnId(index),
          points |-> [i \in 1..Len(kept) |->
                        [ts |-> kept[i].time, value |-> kept[i].values[index]]]]]

\* chartSeries: one series per column over the same sorted entries.
ChartSeriesOf(sorted) ==
  [index \in Cols |->
     [id |-> ColumnId(index),
      points |-> [i \in 1..Len(sorted) |->
                    [ts |-> sorted[i].time, value |-> sorted[i].values[index]]]]]

\* sumSeries.
SumSeriesOf(sorted, includes) ==
  [id |-> "calculated-sum",
   points |-> [i \in 1..Len(sorted) |->
                 [ts |-> sorted[i].time,
                  value |-> SumEntry(sorted[i].values, includes, 1, Null)]]]

\* series: [...chartSeries, sumSeries]
PreviewSeries(responses, cols, includes) ==
  LET sorted == SortedEntries(responses, cols)
  IN  ChartSeriesOf(sorted) \o <<SumSeriesOf(sorted, includes)>>

-----------------------------------------------------------------------------
(* CombinedMathScreen *)

VARIABLES
  columns,       \* useState<ColumnSelection[]>: source, kpi ("" is undefined), scale
  calcIncludes,  \* useState<boolean[]>
  eg4Keys,       \* useState<string[]>
  vrmCodes,      \* useState<string[]>
  fetchState,    \* useState<FetchState>: status, series, error
  optionsPc,     \* loadOptions of the mount effect: "pending" or "done"
  inflight,      \* previewGraph calls awaiting Promise.all: captured columns, calcIncludes
  run,           \* history: the inputs of the previewGraph that set fetchState.series,
                 \* and its `sorted` array as it was before the forward-fill pass
  edits          \* number of user edits made so far

VARIABLES
  chartProps,    \* LineChart: the props series, interactive and height
  activeIndex,   \* LineChart: useState<number | null>
  layoutWidth,   \* LineChart: useState<number | null>
  gesture        \* history: the pointer event handled last, "none" after any other step

VARIABLES
  client,        \* ApiClient: the private field timeoutMs
  sent           \* history: the options of every httpRequest call made so far

VARIABLES
  http,          \* one httpRequest call: its position, its locals and its outcome
  hook,          \* one data hook: its useState values, mountedRef, fetches awaited
  vrm            \* VrmDashboardScreen: selections, seriesState, requests awaited

screenVars ==
  <<columns, calcIncludes, eg4Keys, vrmCodes, fetchState, optionsPc, inflight, run, edits>>

chartVars == <<chartProps, activeIndex, layoutWidth, gesture>>

apiVars == <<client, sent>>

vars == <<screenVars, chartVars, apiVars, http, hook, vrm>>

\* What a step of the screen, of a chart and of the client leaves alone.
NotScreen == <<chartVars, apiVars, http, hook, vrm>>

NotChart == <<screenVars, apiVars, http, hook, vrm>>

NotApi == <<screenVars, chartVars, http, hook, vrm>>

NotHttp == <<screenVars, chartVars, apiVars, hook, vrm>>

NotHook == <<screenVars, chartVars, apiVars, http, vrm>>

NotVrm == <<screenVars, chartVars, apiVars, http, hook>>

\* A LineChart as mounted: no series yet, no cursor, no layout measured.
ChartMounted ==
  /\ chartProps = [series |-> <<>>, interactive |-> FALSE, height |-> 260]
  /\ activeIndex = Null
  /\ layoutWidth = Null
  /\ gesture = [kind |-> "none", x |-> 0]

\* No ApiClient call made.
ClientUnused ==
  /\ client = [timeoutMs |-> Null]
  /\ sent = <<>>

\* A data hook as useState and useRef initialise it, before its effects run.
\* data 0 is null (for useSettingsCatalog: items []), data n the n-th response
\* stored; error "" is null; issued and loaded count requests and responses.
HookIdle ==
  [kind |-> "dashboard", mounted |-> TRUE, status |-> "idle", data |-> 0,
   error |-> "", refreshing |-> FALSE, fetches |-> <<>>, issued |-> 0, loaded |-> 0]

\* No series: seriesState.series = [].
NoSeries == [left |-> "", right |-> "", windowHours |-> 0]

\* VrmDashboardScreen as useState initialises it and its mount effect leaves
\* it: fetchAuxiliaryData awaited.  A code "" is null; a series is named by
\* the request it answers; server holds the backend's history defaults;
\* chosen, done and selects are history: the code last picked on each side,
\* the handleOverride call last completed, the number of picks.
VrmIdle ==
  [sel |-> [left |-> "", right |-> ""], windowHours |-> 24,
   seriesState |-> [status |-> "idle", series |-> NoSeries],
   initialLoading |-> TRUE, loads |-> <<>>, overrides |-> <<>>,
   server |-> [left |-> "", right |-> ""],
   chosen |-> [left |-> "", right |-> ""],
   done |-> [side |-> "", code |-> "", postFailed |-> FALSE],
   selects |-> 0]

\* httpRequest not called: no controller, no timer, no response, no outcome.
HttpIdle ==
  [pc |-> "idle", timeoutMs |-> Null, controller |-> FALSE, domException |-> FALSE,
   timer |-> "none", status |-> 0, abortedIn |-> "", outcome |-> ""]

DEFAULT_COLUMNS ==
  <<[source |-> "eg4", kpi |-> "ppv", scale |-> "1"],
    [source |-> "eg4", kpi |-> "pToUser", scale |-> "1"],
    [source |-> "vrm", kpi |-> "", scale |-> "1"],
    [source |-> "vrm", kpi |-> "", scale |-> "1"]>>

NoResponses == [c \in Cols |-> [present |-> FALSE, points |-> <<>>]]

NoRun == [cols |-> DEFAULT_COLUMNS, includes |-> <<FALSE, FALSE, FALSE, FALSE>>,
          responses |-> NoResponses, merged |-> <<>>]

\* Timestamp strings of the modelled backend ("" is a missing ts).
TsTexts ==
  {"", "not-a-date", "1970-01-01T00:00:01Z", "1970-01-01T00:00:01.000Z",
   "1970-01-01T00:00:02Z", "1970-01-01T00:00:03Z"}

\* Timestamp strings that differ in their instant.
TsPlain == {"1970-01-01T00:00:01Z", "1970-01-01T00:00:02Z", "1970-01-01T00:00:03Z"}

\* The (left, right) pairs of the modelled backend points.
LeftRights ==
  {<<Null, Null>>, <<Num(1), Num(1)>>, <<Null, Num(3)>>, <<PosInf, PosInf>>,
   <<NaN, Num(1)>>}

MkPoint(t, lr) == [ts |-> t, left |-> lr[1], right |-> lr[2]]

\* Points with every timestamp spelling and a value or none.
PointsByTime == {MkPoint(t, lr) : t \in TsTexts, lr \in {<<Null, Null>>, <<Num(1), Num(1)>>}}

\* Points with every value at well-formed, distinct instants.
PointsByValue == {MkPoint(t, lr) : t \in TsPlain, lr \in LeftRights}

\* A small set of points for the behaviours that vary the screen's settings.
PointsFew ==
  {MkPoint("1970-01-01T00:00:01Z", <<Num(1), Num(1)>>),
   MkPoint("1970-01-01T00:00:02Z", <<Null, Num(3)>>)}

\* How many points each column's response holds: none for a column without
\* KPI (its request resolves to null), MaxPoints at most in total.
LengthVectors(cols, most) ==
  {lv \in [Cols -> 0..most] :
     /\ lv[1] + lv[2] + lv[3] + lv[4] <= most
     /\ \A c \in Cols : cols[c].kpi = "" => lv[c] = 0}

ResponsesOf(cols, p1, p2, p3, p4) ==
  LET pts == <<p1, p2, p3, p4>>
  IN  [c \in Cols |-> [present |-> cols[c].kpi # "", points |-> pts[c]]]

\* CombinedMathScreen as mounted: the useState initial values, loadOptions started.
ScreenMounted ==
  /\ columns = DEFAULT_COLUMNS
  /\ calcIncludes = <<TRUE, TRUE, FALSE, FALSE>>
  /\ eg4Keys = <<>>
  /\ vrmCodes = <<>>
  /\ fetchState = [status |-> "idle", series |-> <<>>, error |-> ""]
  /\ optionsPc = "pending"
  /\ inflight = <<>>
  /\ run = NoRun
  /\ edits = 0

Init ==
  /\ ScreenMounted
  /\ ChartMounted
  /\ ClientUnused
  /\ http = HttpIdle
  /\ hook = HookIdle
  /\ vrm = VrmIdle

First(list) == IF list = <<>> THEN "" ELSE list[1]

\* loadOptions, the three option requests resolved.
LoadOptionsResolve(keys, codes) ==
  /\ optionsPc = "pending"
  /\ optionsPc' = "done"
  /\ eg4Keys' = keys
  /\ vrmCodes' = codes
  /\ columns' =
       [idx \in Cols |->
          IF columns[idx].source = "eg4" /\ columns[idx].kpi = "" /\ Len(keys) > 0
            THEN [columns[idx] EXCEPT !.kpi = keys[1]]
          ELSE IF columns[idx].source = "vrm"
            THEN [columns[idx] EXCEPT
                    !.kpi = IF columns[idx].kpi # "" THEN columns[idx].kpi
                            ELSE First(codes)]
          ELSE columns[idx]]
  /\ UNCHANGED <<calcIncludes, fetchState, inflight, run, edits>>
  /\ UNCHANGED NotScreen

\* loadOptions, a request rejected: the catch block.
LoadOptionsReject ==
  /\ optionsPc = "pending"
  /\ optionsPc' = "done"
  /\ fetchState' = [status |-> "error", series |-> <<>>, error |-> "options"]
  /\ UNCHANGED <<columns, calcIncludes, eg4Keys, vrmCodes, inflight, run, edits>>
  /\ UNCHANGED NotScreen

\* handleChangeColumn
HandleChangeColumn(index, next) ==
  columns' = [columns EXCEPT ![index] = next]

\* ColumnConfigurator.handleScaleChange
HandleScaleChange(index, value) ==
  /\ edits < MaxEdits
  /\ edits' = edits + 1
  /\ IF value = "" \/ ScaleRegexTest(value)
       THEN HandleChangeColumn(index, [columns[index] EXCEPT !.scale = value])
       ELSE UNCHANGED columns
  /\ UNCHANGED <<calcIncludes, eg4Keys, vrmCodes, fetchState, optionsPc, inflight, run>>
  /\ UNCHANGED NotScreen

\* The EG4 / VRM source chips of ColumnConfigurator.
PressSource(index, source) ==
  /\ edits < MaxEdits
  /\ edits' = edits + 1
  /\ HandleChangeColumn(index,
       [source |-> source,
        kpi |-> IF source = "eg4" THEN First(eg4Keys) ELSE First(vrmCodes),
        scale |-> IF columns[index].scale = "" THEN "1" ELSE columns[index].scale])
  /\ UNCHANGED <<calcIncludes, eg4Keys, vrmCodes, fetchState, optionsPc, inflight, run>>
  /\ UNCHANGED NotScreen

\* handleToggleCalc
HandleToggleCalc(idx) ==
  /\ edits < MaxEdits
  /\ edits' = edits + 1
  /\ calcIncludes' = [calcIncludes EXCEPT ![idx] = ~calcIncludes[idx]]
  /\ UNCHANGED <<columns, eg4Keys, vrmCodes, fetchState, optionsPc, inflight, run>>
  /\ UNCHANGED NotScreen

\* canPreview
CanPreview == \E c \in Cols : columns[c].kpi # ""

\* previewGraph up to `await Promise.all(requests)`.  The Preview button is
\* disabled while fetchState.status is 'loading'.
PreviewStart ==
  /\ CanPreview
  /\ fetchState.status # "loading"
  /\ fetchState' = [fetchState EXCEPT !.status = "loading", !.error = ""]
  /\ inflight' = Append(inflight, [cols |-> columns, includes |-> calcIncludes])
  /\ UNCHANGED <<columns, calcIncludes, eg4Keys, vrmCodes, optionsPc, run, edits>>
  /\ UNCHANGED NotScreen

Remove(seq, i) == SubSeq(seq, 1, i - 1) \o SubSeq(seq, i + 1, Len(seq))

\* previewGraph after the await, every request resolved: the try block.
PreviewResolve(i, responses) ==
  /\ i \in 1..Len(inflight)
  /\ fetchState' = [status |-> "ready",
                    series |-> PreviewSeries(responses, inflight[i].cols,
                                             inflight[i].includes),
                    error |-> ""]
  /\ run' = [cols |-> inflight[i].cols, includes |-> inflight[i].includes,
             responses |-> responses,
             merged |-> MergedEntries(responses, inflight[i].cols)]
  /\ inflight' = Remove(inflight, i)
  /\ UNCHANGED <<columns, calcIncludes, eg4Keys, vrmCodes, optionsPc, edits>>
  /\ UNCHANGED NotScreen

\* The catch block leaving the state as the await found it.
PreviewRejectSilent(i) ==
  /\ i \in 1..Len(inflight)
  /\ inflight' = Remove(inflight, i)
  /\ UNCHANGED NotScreen
  /\ UNCHANGED <<columns, calcIncludes, eg4Keys, vrmCodes, fetchState, optionsPc, run, edits>>

\* previewGraph after the await, a request rejected: the catch block.
PreviewReject(i) ==
  /\ i \in 1..Len(inflight)
  /\ fetchState' = [status |-> "error", series |-> <<>>, error |-> "request"]
  /\ inflight' = Remove(inflight, i)
  /\ UNCHANGED <<columns, calcIncludes, eg4Keys, vrmCodes, optionsPc, run, edits>>
  /\ UNCHANGED NotScreen

\* previewGraph after the await, every request resolved with a response that
\* has no `points` array: response.points.forEach throws inside the try block.
PreviewThrow(i) ==
  /\ i \in 1..Len(inflight)
  /\ fetchState' = [status |-> "error", series |-> <<>>, error |-> "TypeError"]
  /\ inflight' = Remove(inflight, i)
  /\ UNCHANGED <<columns, calcIncludes, eg4Keys, vrmCodes, optionsPc, run, edits>>
  /\ UNCHANGED NotScreen

\* The responses of one preview, drawn from the point set `points`.
PreviewResolves(points, most) ==
  \E i \in 1..Len(inflight) :
    \E lv \in LengthVectors(inflight[i].cols, most) :
      \E p1 \in [1..lv[1] -> points], p2 \in [1..lv[2] -> points],
         p3 \in [1..lv[3] -> points], p4 \in [1..lv[4] -> points] :
        PreviewResolve(i, ResponsesOf(inflight[i].cols, p1, p2, p3, p4))

KeyLists == {<<>>, <<"ppv", "pToUser">>}

CodeLists == {<<>>, <<"SOC">>}

UserEdit ==
  \/ \E c \in Cols, text \in ScaleTexts : HandleScaleChange(c, text)
  \/ \E c \in Cols, source \in {"eg4", "vrm"} : PressSource(c, source)
  \/ \E idx \in Cols : HandleToggleCalc(idx)

Next ==
  \/ \E keys \in KeyLists, codes \in CodeLists : LoadOptionsResolve(keys, codes)
  \/ LoadOptionsReject
  \/ UserEdit
  \/ PreviewStart
  \/ PreviewResolves(PointsFew, 1)
  \/ \E i \in 1..Len(inflight) : PreviewReject(i)
  \/ \E i \in 1..Len(inflight) : PreviewThrow(i)

Spec == Init /\ [][Next]_vars

-----------------------------------------------------------------------------
(* The aggregation of one preview, over settings the screen can be in *)

\* Scale texts of column 1 (each one accepted by handleScaleChange).
AggScales == {"2", "0", "-1"}

\* Include flags: the default, column 2 toggled off, column 1 toggled off.
AggIncludes ==
  {<<TRUE, TRUE, FALSE, FALSE>>, <<TRUE, FALSE, FALSE, FALSE>>,
   <<FALSE, TRUE, FALSE, FALSE>>}

InitAgg ==
  /\ \E text \in AggScales :
       columns = [DEFAULT_COLUMNS EXCEPT ![1].scale = text]
  /\ calcIncludes \in AggIncludes
  /\ eg4Keys = <<>>
  /\ vrmCodes = <<>>
  /\ fetchState = [status |-> "idle", series |-> <<>>, error |-> ""]
  /\ optionsPc = "done"
  /\ inflight = <<>>
  /\ run = NoRun
  /\ edits = 0
  /\ ChartMounted
  /\ ClientUnused
  /\ http = HttpIdle
  /\ hook = HookIdle
  /\ vrm = VrmIdle

\* The first press of the Preview button.
FirstPreview == fetchState.status = "idle" /\ PreviewStart

NextAgg ==
  \/ FirstPreview
  \/ PreviewResolves(PointsByValue, MaxPoints)
  \/ PreviewResolves(PointsByTime, MaxPoints)
  \/ \E i \in 1..Len(inflight) : PreviewReject(i)

SpecAgg == InitAgg /\ [][NextAgg]_vars

-----------------------------------------------------------------------------
(* LineChart *)

\* a <= b on numbers that are neither null nor NaN.
Leq(a, b) ==
  IF a.k = "-Infinity" \/ b.k = "Infinity" THEN TRUE
  ELSE IF a.k = "Infinity" \/ b.k = "-Infinity" THEN FALSE
  ELSE a.v <= b.v

\* a > b, false when either side is NaN.
Greater(a, b) == ~IsNaN(a) /\ ~IsNaN(b) /\ ~Leq(a, b)

\* `values` of the info memo: every value of every series that is neither
\* null nor NaN.
ChartValues(series) ==
  UNION {{series[s].points[i].value : i \in 1..Len(series[s].points)} :
           s \in 1..Len(series)} \ {Null, NaN}

\* The min, max and hasData of LineChart's info memo.
Info(series) ==
  LET timeline == IF Len(series) > 0 THEN series[1].points ELSE <<>>
      values == ChartValues(series)
  IN  IF values = {} \/ Len(timeline) = 0
        THEN [min |-> Num(0), max |-> Num(1), hasData |-> FALSE]
        ELSE LET min == CHOOSE v \in values : \A w \in values : Leq(v, w)
                 max == CHOOSE v \in values : \A w \in values : Leq(w, v)
             IN  [min |-> min,
                  max |-> IF min = max THEN Add(min, Num(1)) ELSE max,
                  hasData |-> TRUE]

\* series.length ? series[0].points : []
Timeline(series) == IF Len(series) > 0 THEN series[1].points ELSE <<>>

Max2(a, b) == IF a >= b THEN a ELSE b

Min2(a, b) == IF a <= b THEN a ELSE b

\* Math.round(a / b) for integers a >= 0 and b > 0.
RoundDiv(a, b) == (2 * a + b) \div (2 * b)

\* A finite number that is a pixel count or an index (no overflow in reach).
Px(n) == [k |-> "num", v |-> n]

\* -a on doubles.
Neg(a) ==
  IF IsNaN(a) THEN NaN
  ELSE IF a = PosInf THEN NegInf
  ELSE IF a = NegInf THEN PosInf
  ELSE Num(-a.v)

\* a - b on doubles.
Sub(a, b) == Add(a, Neg(b))

\* Dimensions.get('window').width of the modelled device.
WindowWidth == 320

\* info.width: Math.max(220, layoutWidth ?? fallbackWidth)
InfoWidth(lw) ==
  LET fallbackWidth == Max2(220, WindowWidth - 32)
  IN  Max2(220, IF IsNull(lw) THEN fallbackWidth ELSE lw.v)

\* info.chartWidth
ChartWidth(lw) == Max2(InfoWidth(lw) - 32, 160)

\* info.chartHeight
ChartHeight(height) == Max2(height - 56, 120)

\* marginX = (width - chartWidth) / 2 (the difference is 32, width being >= 220).
MarginX(lw) == (InfoWidth(lw) - ChartWidth(lw)) \div 2

\* The x of buildPath in hundredths of a pixel, as x.toFixed(2) prints it;
\* index counts from 0.
PathX(index, count, width) ==
  IF index = count - 1 THEN 100 * width
  ELSE RoundDiv(100 * index * width, count - 1)

\* const range = max - min || 1;
PathRange(min, max) ==
  LET d == Sub(max, min)
  IN  IF IsNaN(d) \/ d = Num(0) THEN Num(1) ELSE d

\* The y of buildPath, height - ((value - min) / range) * height: NaN, an
\* infinity, or a finite number in hundredths of a pixel as y.toFixed(2)
\* prints it.  A finite difference divided by an infinite range is 0.
PathY(value, height, min, range) ==
  LET num == Sub(value, min)
  IN  IF IsNaN(num) THEN NaN
      ELSE IF IsInf(num)
        THEN IF IsInf(range) THEN NaN
             ELSE IF Sign(num) * Sign(range) > 0 THEN NegInf ELSE PosInf
      ELSE IF IsInf(range) THEN Px(100 * height)
      ELSE LET r == IF range.v < 0 THEN -range.v ELSE range.v
               n == IF range.v < 0 THEN -num.v ELSE num.v
           IN  Px((200 * height * (r - n) + r) \div (2 * r))

\* The forEach of buildPath from position i on; `move` is its flag.
RECURSIVE PathFrom(_, _, _, _, _, _, _)
PathFrom(points, i, move, width, height, min, range) ==
  IF i > Len(points) THEN <<>>
  ELSE LET value == points[i].value
           y == IF IsNull(value) THEN NaN ELSE PathY(value, height, min, range)
       IN  IF IsNull(value) \/ IsNaN(value) \/ IsNaN(y)
             THEN PathFrom(points, i + 1, TRUE, width, height, min, range)
             ELSE <<[op |-> IF move THEN "M" ELSE "L",
                     x |-> PathX(i - 1, Len(points), width),
                     y |-> y]>>
                  \o PathFrom(points, i + 1, FALSE, width, height, min, range)

\* buildPath with the gap flag never raised again after the first command.
BuildPathBridged(points, width, height, min, max) ==
  LET cmds == PathFrom(points, 1, TRUE, width, height, min, PathRange(min, max))
  IN  [j \in 1..Len(cmds) |-> [cmds[j] EXCEPT !.op = IF j = 1 THEN "M" ELSE "L"]]

\* buildPath: the commands of the path string, '' being the empty sequence.
BuildPath(points, width, height, min, max) ==
  PathFrom(points, 1, TRUE, width, height, min, PathRange(min, max))

\* timeValues: the timestamps of the timeline that are numbers and not NaN.
TimeValues(series) ==
  LET timeline == Timeline(series)
  IN  {timeline[i].ts.v : i \in {j \in 1..Len(timeline) : IsFinite(timeline[j].ts)}}

\* xTicks with the midpoint at the minimum.
XTicksNoMid(series, lw, now1, now2) ==
  LET times == TimeValues(series)
      minTime == IF times # {} THEN CHOOSE t \in times : \A u \in times : t <= u
                 ELSE now1
      maxTime == IF times # {} THEN CHOOSE t \in times : \A u \in times : u <= t
                 ELSE now2
  IN  <<[time |-> 2 * minTime, position |-> 2 * MarginX(lw)],
        [time |-> 2 * minTime, position |-> 2 * MarginX(lw) + ChartWidth(lw)],
        [time |-> 2 * maxTime, position |-> 2 * (MarginX(lw) + ChartWidth(lw))]>>

\* xTicks; times and positions are given in halves (twice their value), the
\* midpoint minTime + (maxTime - minTime) / 2 being a half-integer at most.
\* now1 and now2 are what the two Date.now() calls return.
XTicks(series, lw, now1, now2) ==
  LET times == TimeValues(series)
      minTime == IF times # {} THEN CHOOSE t \in times : \A u \in times : t <= u
                 ELSE now1
      maxTime == IF times # {} THEN CHOOSE t \in times : \A u \in times : u <= t
                 ELSE now2
  IN  <<[time |-> 2 * minTime, position |-> 2 * MarginX(lw)],
        [time |-> 2 * minTime + (maxTime - minTime),
         position |-> 2 * MarginX(lw) + ChartWidth(lw)],
        [time |-> 2 * maxTime, position |-> 2 * (MarginX(lw) + ChartWidth(lw))]>>

\* The index handleTouch computes, without the clamp of x to the plot.
TouchIndexUnclamped(x, lw, timelineLength) ==
  LET lower == MarginX(lw)
      denominator == IF ChartWidth(lw) <= 0 THEN 1 ELSE ChartWidth(lw)
  IN  IF timelineLength > 1
        THEN ((2 * (x - lower) * (timelineLength - 1)) + denominator)
               \div (2 * denominator)
        ELSE 0

\* The index handleTouch computes, truncating instead of rounding.
TouchIndexFloor(x, lw, timelineLength) ==
  LET lower == MarginX(lw)
      upper == MarginX(lw) + ChartWidth(lw)
      clamped == Min2(Max2(x, lower), upper)
      denominator == IF ChartWidth(lw) <= 0 THEN 1 ELSE ChartWidth(lw)
  IN  IF timelineLength > 1
        THEN ((clamped - lower) * (timelineLength - 1)) \div denominator
        ELSE 0

\* The index handleTouch computes for pointer x:
\* Math.round(ratio * (timelineLength - 1)), ratio = (clamped - lower) / denominator.
TouchIndex(x, lw, timelineLength) ==
  LET lower == MarginX(lw)
      upper == MarginX(lw) + ChartWidth(lw)
      clamped == Min2(Max2(x, lower), upper)
      denominator == IF ChartWidth(lw) <= 0 THEN 1 ELSE ChartWidth(lw)
  IN  IF timelineLength > 1
        THEN RoundDiv((clamped - lower) * (timelineLength - 1), denominator)
        ELSE 0

\* activeData is not null.
HasActiveData(series, index) ==
  /\ ~IsNull(index)
  /\ Len(Timeline(series)) > 0
  /\ index.v \in 0..(Len(Timeline(series)) - 1)

\* cursorX is not null.
HasCursorX(series, index) == ~IsNull(index) /\ Len(Timeline(series)) > 0

\* cursorX when it is not null, in hundredths of a pixel; index counts from 0.
\* stepX is chartWidth / (timelineLength - 1).
CursorX(index, lw, timelineLength) ==
  IF timelineLength = 1 THEN 100 * MarginX(lw) + 50 * ChartWidth(lw)
  ELSE 100 * MarginX(lw) + RoundDiv(100 * index * ChartWidth(lw), timelineLength - 1)

\* What LineChart renders, always drawing the Svg.
RenderAlwaysSvg(props, index, lw) ==
  LET info == Info(props.series)
      paths == [s \in 1..Len(props.series) |->
                  BuildPath(props.series[s].points, ChartWidth(lw),
                            ChartHeight(props.height), info.min, info.max)]
      cursor == /\ props.interactive
                /\ HasActiveData(props.series, index)
                /\ HasCursorX(props.series, index)
  IN  [placeholder |-> FALSE,
       paths |-> SelectSeq(paths, LAMBDA d : d # <<>>),
       cursor |-> cursor,
       tooltip |-> cursor]

\* What LineChart renders: the Svg with one Path per series whose path string
\* is not empty, or the emptyState placeholder; the cursor line; the tooltip.
Render(props, index, lw) ==
  LET info == Info(props.series)
      paths == [s \in 1..Len(props.series) |->
                  BuildPath(props.series[s].points, ChartWidth(lw),
                            ChartHeight(props.height), info.min, info.max)]
      cursor == /\ props.interactive
                /\ info.hasData
                /\ HasActiveData(props.series, index)
                /\ HasCursorX(props.series, index)
  IN  [placeholder |-> ~info.hasData,
       paths |-> IF info.hasData THEN SelectSeq(paths, LAMBDA d : d # <<>>)
                 ELSE <<>>,
       cursor |-> cursor,
       tooltip |-> cursor]

-----------------------------------------------------------------------------
(* LineChart as a component: props, cursor state, gestures *)

\* Most samples of a series handed to a chart.
MaxSamples == 3

\* One timestamp of a timeline with the values two series hold there.
ChartRows ==
  {[tsOk |-> TRUE, a |-> Null, b |-> Null],
   [tsOk |-> TRUE, a |-> Num(1), b |-> Num(1)],
   [tsOk |-> TRUE, a |-> Null, b |-> Num(2)],
   [tsOk |-> FALSE, a |-> NaN, b |-> Num(1)],
   [tsOk |-> TRUE, a |-> PosInf, b |-> Num(1)]}

\* The rows of the series a mounted chart is handed next.
UpdateRows ==
  {[tsOk |-> TRUE, a |-> Null, b |-> Null],
   [tsOk |-> TRUE, a |-> Num(1), b |-> Num(1)]}

\* Two series over one timeline; the i-th timestamp is i, or NaN.
SeriesOf(rows) ==
  <<[id |-> "left",
     points |-> [i \in 1..Len(rows) |->
                   [ts |-> IF rows[i].tsOk THEN Num(i) ELSE NaN,
                    value |-> rows[i].a]]],
    [id |-> "right",
     points |-> [i \in 1..Len(rows) |->
                   [ts |-> IF rows[i].tsOk THEN Num(i) ELSE NaN,
                    value |-> rows[i].b]]]>>

SeriesOver(rowSet) ==
  {<<>>} \cup {SeriesOf(rows) : rows \in UNION {[1..n -> rowSet] : n \in 0..MaxSamples}}

ChartInputs == SeriesOver(ChartRows)

ChartUpdates == SeriesOver(UpdateRows)

\* locationX of the pointer events: far left of the plot, inside it, far right.
PointerXs == {-484, 80, 116, 772}

\* layout.width of the onLayout events.
LayoutWidths == {0, 220, 221}

\* The values Date.now() is modelled to return.
Nows == {7, 8}

NoGesture == [kind |-> "none", x |-> 0]

\* The two kinds of chart the screens mount: the inline preview
\* (<LineChart series=... />) and an interactive one of height 280.
InitChart ==
  /\ ScreenMounted
  /\ ClientUnused
  /\ http = HttpIdle
  /\ hook = HookIdle
  /\ vrm = VrmIdle
  /\ \E s \in ChartInputs, i \in BOOLEAN :
       chartProps = [series |-> s, interactive |-> i,
                     height |-> IF i THEN 280 ELSE 260]
  /\ activeIndex = Null
  /\ layoutWidth = Null
  /\ gesture = NoGesture

\* panResponder is not null: its handlers are attached to the View.
PanAttached == chartProps.interactive /\ Len(Timeline(chartProps.series)) > 0

\* onPanResponderGrant, onPanResponderMove, onPanResponderRelease:
\* handleGesture, which calls handleTouch(locationX).
HandleGesture(kind, x) ==
  /\ PanAttached
  /\ activeIndex' = Px(TouchIndex(x, layoutWidth, Len(Timeline(chartProps.series))))
  /\ gesture' = [kind |-> kind, x |-> x]
  /\ UNCHANGED <<chartProps, layoutWidth>>
  /\ UNCHANGED NotChart

\* onPanResponderTerminate clearing the cursor.
PanTerminateClears ==
  /\ PanAttached
  /\ activeIndex' = Null
  /\ gesture' = [kind |-> "terminate", x |-> 0]
  /\ UNCHANGED <<chartProps, layoutWidth>>
  /\ UNCHANGED NotChart

\* onPanResponderTerminate: () => undefined
PanTerminate ==
  /\ PanAttached
  /\ gesture' = [kind |-> "terminate", x |-> 0]
  /\ UNCHANGED <<chartProps, activeIndex, layoutWidth>>
  /\ UNCHANGED NotChart

\* handleLayout
HandleLayout(nextWidth) ==
  /\ layoutWidth' =
       IF nextWidth = 0 THEN layoutWidth
       ELSE IF IsNull(layoutWidth) THEN Px(nextWidth)
       ELSE IF layoutWidth.v - nextWidth > 1 \/ nextWidth - layoutWidth.v > 1
         THEN Px(nextWidth)
       ELSE layoutWidth
  /\ gesture' = IF nextWidth = 0 THEN gesture ELSE NoGesture
  /\ UNCHANGED <<chartProps, activeIndex>>
  /\ UNCHANGED NotChart

\* The effect on [timeline.length], leaving a set index as it is.
LengthEffectKeeps(prev, before, after) ==
  IF after = before THEN prev
  ELSE IF after = 0 THEN Null
  ELSE prev

\* The effect on [timeline.length]: what activeIndex becomes when the
\* timeline's length goes from `before` to `after`.
LengthEffect(prev, before, after) ==
  IF after = before THEN prev
  ELSE IF after = 0 THEN Null
  ELSE IF IsNull(prev) THEN Null
  ELSE Px(Min2(prev.v, after - 1))

\* The parent renders the chart with another `series` prop; the effect on
\* [timeline.length] runs with the commit.
SetSeries(next) ==
  /\ chartProps' = [chartProps EXCEPT !.series = next]
  /\ activeIndex' = LengthEffect(activeIndex, Len(Timeline(chartProps.series)),
                                 Len(Timeline(next)))
  /\ gesture' = NoGesture
  /\ UNCHANGED layoutWidth
  /\ UNCHANGED NotChart

NextChart ==
  \/ \E kind \in {"grant", "move", "release"}, x \in PointerXs : HandleGesture(kind, x)
  \/ PanTerminate
  \/ \E w \in LayoutWidths : HandleLayout(w)
  \/ \E next \in ChartUpdates : SetSeries(next)

SpecChart == InitChart /\ [][NextChart]_vars

-----------------------------------------------------------------------------
(* ApiClient *)

\* Most ApiClient calls in one behaviour.
MaxRequests == 2

\* timeoutMs of ApiClientOptions and of RequestOverrides: undefined, or a number.
TimeoutChoices == {Null, Px(0), Px(4000), Px(8000)}

\* The paths of the GET methods, each of which calls this.request.
GetPaths ==
  {"/api/health", "/api/runtime", "/api/energy", "/api/battery",
   "/api/history/pv", "/api/alerts", "/api/scheduler/status",
   "/api/scheduler/events", "/api/victron/health", "/api/history/keys",
   "/api/history/custom", "/api/victron/history/codes",
   "/api/victron/devices/instances", "/api/victron/devices/instance-codes",
   "/api/victron/history/custom-by-code", "/api/victron/history/defaults",
   "/api/victron/history/descriptions", "/api/victron/samples/meta"}

\* new ApiClient(options), then no call yet.
InitApi ==
  /\ ScreenMounted
  /\ ChartMounted
  /\ http = HttpIdle
  /\ hook = HookIdle
  /\ vrm = VrmIdle
  /\ client \in {[timeoutMs |-> t] : t \in TimeoutChoices}
  /\ sent = <<>>

\* httpRequest(baseUrl, path, fetchFn, options) up to the fetch: the timer is
\* armed when timeoutMs is a number above 0.  `perCall` records the timeoutMs
\* of the caller's RequestOverrides.
HttpRequest(method, path, timeoutMs, perCall) ==
  /\ Len(sent) < MaxRequests
  /\ sent' = Append(sent, [method |-> method, path |-> path,
                           timeoutMs |-> timeoutMs,
                           timer |-> IsFinite(timeoutMs) /\ timeoutMs.v > 0,
                           perCall |-> perCall])
  /\ UNCHANGED client
  /\ UNCHANGED NotApi

\* ApiClient.request: timeoutMs: timeoutMs ?? this.timeoutMs
Request(path, perCall) ==
  HttpRequest("GET", path, Coalesce(perCall, client.timeoutMs), perCall)

\* The GET methods (getHealth ... getVrmSamplesMeta).
Get(path, perCall) == Request(path, perCall)

\* scheduleChange: const { headers, ...rest } = options ?? {}; httpRequest(..., { ...rest, ... })
ScheduleChange(perCall) == HttpRequest("POST", "/schedule", perCall, perCall)

\* overrideVrmHistoryDefault: const { instance, headers, ...rest } = options
OverrideVrmHistoryDefault(perCall) ==
  HttpRequest("POST", "/api/victron/history/override-default", perCall, perCall)

\* ping: this.getHealth()
Ping == Get("/api/health", Null)

NextApi ==
  \/ \E path \in GetPaths, t \in TimeoutChoices : Get(path, t)
  \/ \E t \in TimeoutChoices : ScheduleChange(t)
  \/ \E t \in TimeoutChoices : OverrideVrmHistoryDefault(t)
  \/ Ping

SpecApi == InitApi /\ [][NextApi]_vars

-----------------------------------------------------------------------------
(* httpRequest of packages/api-client/src/http.ts, one call followed from its
   first line to the settling of its promise.  The runtime decides whether
   AbortController and DOMException are globals; the function tests both. *)

ResponseStatuses == {200, 204, 500}

InitHttp ==
  /\ ScreenMounted
  /\ ChartMounted
  /\ ClientUnused
  /\ http = HttpIdle
  /\ hook = HookIdle
  /\ vrm = VrmIdle

\* The call up to the first await: the controller, the timer, fetchFn(url, init).
HttpCall(timeoutMs, hasController, hasDOMException) ==
  /\ http.pc = "idle"
  /\ http' = [HttpIdle EXCEPT
                !.pc = "fetching",
                !.timeoutMs = timeoutMs,
                !.controller = hasController,
                !.domException = hasDOMException,
                !.timer = IF hasController /\ ~IsNull(timeoutMs) /\ timeoutMs.v > 0
                            THEN "armed" ELSE "none"]
  /\ UNCHANGED NotHttp

\* The catch block for the error of an aborted fetch or body read.
AbortOutcome(h) ==
  IF h.controller /\ h.domException THEN "ApiError408" ELSE "AbortError"

\* finally: clearTimeout(timeoutHandle) when a timer was armed.
Finally(h) == IF h.timer = "armed" THEN "cleared" ELSE h.timer

\* The timer fires while an await is pending: controller.abort() rejects the
\* pending fetch or body read with the runtime's abort error; catch, finally.
TimerFires ==
  /\ http.timer = "armed"
  /\ http.pc \in {"fetching", "parsing"}
  /\ http' = [http EXCEPT !.pc = "rejected", !.timer = "fired",
                          !.abortedIn = http.pc, !.outcome = AbortOutcome(http)]
  /\ UNCHANGED NotHttp

\* fetchFn resolves with a response: 204 returns null, anything else goes on
\* to await parseBody, with the timer still armed.
FetchSettles(status) ==
  /\ http.pc = "fetching"
  /\ http' = IF status = 204
               THEN [http EXCEPT !.pc = "resolved", !.status = status,
                                 !.outcome = "null", !.timer = Finally(http)]
               ELSE [http EXCEPT !.pc = "parsing", !.status = status]
  /\ UNCHANGED NotHttp

\* fetchFn rejects with a network error: rethrown by the catch block; finally.
FetchFails ==
  /\ http.pc = "fetching"
  /\ http' = [http EXCEPT !.pc = "rejected", !.outcome = "NetworkError",
                          !.timer = Finally(http)]
  /\ UNCHANGED NotHttp

\* parseBody resolves: a non-ok response throws ApiError(status), an ok one
\* returns the data; finally.
BodyParsed ==
  /\ http.pc = "parsing"
  /\ http' = IF http.status = 200
               THEN [http EXCEPT !.pc = "resolved", !.outcome = "data",
                                 !.timer = Finally(http)]
               ELSE [http EXCEPT !.pc = "rejected", !.outcome = "ApiErrorStatus",
                                 !.timer = Finally(http)]
  /\ UNCHANGED NotHttp

NextHttp ==
  \/ \E t \in TimeoutChoices, c \in BOOLEAN, d \in BOOLEAN : HttpCall(t, c, d)
  \/ TimerFires
  \/ \E status \in ResponseStatuses : FetchSettles(status)
  \/ FetchFails
  \/ BodyParsed

SpecHttp == InitHttp /\ [][NextHttp]_vars

-----------------------------------------------------------------------------
(* The data hooks of apps/mobile: useDashboardData and useSchedulerFeed (the
   same code over different requests), useSystemStatus and useSettingsCatalog.
   One hook is followed from its mount; a fetch is split at its await. *)

MaxFetches == 4

HookKinds == {"dashboard", "scheduler", "status", "catalog"}

\* The hooks whose fetch callback has [api, data] as dependencies.
Feeds == {"dashboard", "scheduler"}

\* if (!mountedRef.current) return;  with `next` the state the rest would set.
IfMountedUnchecked(h, next) == next

IfMounted(h, next) == IF h.mounted THEN next ELSE h

\* A fetch from its first line to its await: the state set, the request sent
\* with the `data` of the closure the callback was created in.
Fetch(h, mode) ==
  LET started ==
        IF h.kind = "status"
          THEN IF h.status = "ready" THEN h
               ELSE [h EXCEPT !.status = "loading", !.data = 0, !.error = ""]
        ELSE IF mode = "initial" THEN [h EXCEPT !.status = "loading"]
        ELSE IF mode = "refresh" THEN [h EXCEPT !.refreshing = TRUE]
        ELSE h
  IN  IfMounted(h, [started EXCEPT
                      !.fetches = Append(@, [mode |-> mode, data |-> h.data]),
                      !.issued = @ + 1])

\* finally of fetch f: setRefreshing(false) for a refresh.
RefreshingAfter(h, f) ==
  IF h.kind # "status" /\ f.mode = "refresh" THEN FALSE ELSE h.refreshing

\* The try block after the await of fetch f, then finally.
Stored(h, f) ==
  [h EXCEPT !.data = h.loaded + 1, !.loaded = @ + 1, !.error = "",
            !.status = "ready", !.refreshing = RefreshingAfter(h, f)]

\* The catch block of fetch f, with no finally after it.
FailedNoFinally(h, f) ==
  IF h.kind = "status"
    THEN [h EXCEPT !.status = "error", !.error = "message",
                   !.data = IF h.status = "ready" THEN h.data ELSE 0]
  ELSE IF h.kind = "catalog"
    THEN [h EXCEPT !.error = "message",
                   !.status = IF f.mode = "initial" THEN "error" ELSE @]
  ELSE [h EXCEPT !.error = "message",
                 !.status = IF f.data = 0 THEN "error" ELSE @]

\* The catch block of fetch f, then finally.
Failed(h, f) ==
  IF h.kind = "status"
    THEN [h EXCEPT !.status = "error", !.error = "message",
                   !.data = IF h.status = "ready" THEN h.data ELSE 0]
  ELSE IF h.kind = "catalog"
    THEN [h EXCEPT !.error = "message",
                   !.status = IF f.mode = "initial" THEN "error" ELSE @,
                   !.refreshing = RefreshingAfter(h, f)]
  ELSE [h EXCEPT !.error = "message",
                 !.status = IF f.data = 0 THEN "error"
                            ELSE IF f.mode = "initial" THEN "ready" ELSE @,
                 !.refreshing = RefreshingAfter(h, f)]

\* The effects of the render that follows: in the feeds a new `data` makes a
\* new fetch callback, and the effect with [fetchAll] as dependencies calls
\* fetchAll('initial').
Effects(before, after) ==
  IF before.kind \in Feeds /\ after.data # before.data
    THEN Fetch(after, "initial")
    ELSE after

\* The hook mounts: its effects run, the first fetch is sent.
InitHooks ==
  /\ ScreenMounted
  /\ ChartMounted
  /\ ClientUnused
  /\ http = HttpIdle
  /\ vrm = VrmIdle
  /\ \E kind \in HookKinds : hook = Fetch([HookIdle EXCEPT !.kind = kind], "initial")

\* refresh() is called, possibly by a component that outlived the hook.
HookRefresh ==
  /\ hook.issued < MaxFetches
  /\ hook' = Fetch(hook, "refresh")
  /\ UNCHANGED NotHook

\* The interval fires; the effect's cleanup clears it at unmount.
HookTick ==
  /\ hook.kind # "catalog"
  /\ hook.mounted
  /\ hook.issued < MaxFetches
  /\ hook' = Fetch(hook, "auto")
  /\ UNCHANGED NotHook

\* The requests of fetch i settle, all fulfilled (ok) or one rejected.
Settle(i, ok) ==
  /\ i \in 1..Len(hook.fetches)
  /\ (ok /\ hook.mounted /\ hook.kind \in Feeds) => hook.issued < MaxFetches
  /\ LET f == hook.fetches[i]
         rest == [hook EXCEPT !.fetches = Remove(@, i)]
     IN  hook' = IfMounted(rest, IF ok THEN Effects(rest, Stored(rest, f))
                                       ELSE Failed(rest, f))
  /\ UNCHANGED NotHook

\* The component unmounts: mountedRef.current = false.
HookUnmount ==
  /\ hook.mounted
  /\ hook' = [hook EXCEPT !.mounted = FALSE]
  /\ UNCHANGED NotHook

NextHooks ==
  \/ HookRefresh
  \/ HookTick
  \/ \E i \in 1..Len(hook.fetches), ok \in BOOLEAN : Settle(i, ok)
  \/ HookUnmount

SpecHooks == InitHooks /\ [][NextHooks]_vars

\* Every request carries a 4-second timeout, so every fetch awaited settles.
SpecHooksFair ==
  SpecHooks /\ WF_vars(\E i \in 1..Len(hook.fetches), ok \in BOOLEAN : Settle(i, ok))

-----------------------------------------------------------------------------
(* VrmDashboardScreen: the left and right selections, the history series
   loaded for them, and the override of the backend's defaults.  Instances
   are left out: the backend's defaults carry none and a pick sets null. *)

MaxSelects == 2

MaxLoads == 2

\* The codes of GET /api/vrm/history/codes, sorted.
Codes == <<"A", "B">>

Sides == {"left", "right"}

\* What the backend holds as defaults when the screen mounts.
ServerDefaults == {[left |-> "", right |-> ""], [left |-> "A", right |-> "B"]}

\* Two of WINDOW_OPTIONS, the initial 24 among them.
WindowOptions == {24, 48}

\* loadSeries from its first line to its await.
LoadSeries(v) ==
  IF v.sel.left = "" \/ v.sel.right = ""
    THEN [v EXCEPT !.seriesState = [status |-> "idle", series |-> NoSeries]]
    ELSE [v EXCEPT !.seriesState.status = "loading",
                   !.loads = Append(@, [left |-> v.sel.left, right |-> v.sel.right,
                                        windowHours |-> v.windowHours])]

\* The effect that calls loadSeries when initialLoading, a selection or the
\* window changed, once loading is over and both codes are set.
LoadEffect(before, after) ==
  IF after.initialLoading \/ after.sel.left = "" \/ after.sel.right = "" THEN after
  ELSE IF <<before.initialLoading, before.sel, before.windowHours>>
            # <<after.initialLoading, after.sel, after.windowHours>>
    THEN LoadSeries(after)
    ELSE after

InitVrm ==
  /\ ScreenMounted
  /\ ChartMounted
  /\ ClientUnused
  /\ http = HttpIdle
  /\ hook = HookIdle
  /\ \E d \in ServerDefaults : vrm = [VrmIdle EXCEPT !.server = d]

\* a ?? b ?? c over codes.
Prefer(a, b, c) == IF a # "" THEN a ELSE IF b # "" THEN b ELSE c

\* fetchAuxiliaryData after its awaits: the selections follow the defaults,
\* else stay, else take the first codes; or the catch block; then finally.
AuxSettles(ok) ==
  /\ vrm.initialLoading
  /\ LET set == IF ok
                  THEN [vrm EXCEPT
                          !.sel.left = Prefer(vrm.server.left, @, Codes[1]),
                          !.sel.right = Prefer(vrm.server.right, @, Codes[2])]
                  ELSE vrm
         next == [set EXCEPT !.initialLoading = FALSE]
     IN  vrm' = LoadEffect(vrm, next)
  /\ UNCHANGED NotVrm

\* handleSelectLeft / handleSelectRight: the selection is set and
\* handleOverride sends its POST.
SelectSide(side, code) ==
  /\ ~vrm.initialLoading
  /\ vrm.selects < MaxSelects
  /\ Len(vrm.loads) < MaxLoads
  /\ LET next == [vrm EXCEPT
                    !.sel[side] = code,
                    !.chosen[side] = code,
                    !.selects = @ + 1,
                    !.overrides = Append(@, [side |-> side, code |-> code,
                                             stage |-> "post", postFailed |-> FALSE])]
     IN  vrm' = LoadEffect(vrm, next)
  /\ UNCHANGED NotVrm

\* handleOverride after the POST settled: fulfilled, the backend has the new
\* default; rejected, the error is ignored; either way refreshDefaults sends
\* its GET.
OverridePost(i, ok) ==
  /\ i \in 1..Len(vrm.overrides)
  /\ vrm.overrides[i].stage = "post"
  /\ vrm' = [vrm EXCEPT
               !.overrides[i].stage = "defaults",
               !.overrides[i].postFailed = ~ok,
               !.server[vrm.overrides[i].side] =
                  IF ok THEN vrm.overrides[i].code ELSE @]
  /\ UNCHANGED NotVrm

\* The selections refreshDefaults sets from the defaults it received.
DefaultsApplied(v) ==
  [left |-> IF v.server.left = "" THEN v.sel.left ELSE v.server.left,
   right |-> IF v.server.right = "" THEN v.sel.right ELSE v.server.right]

\* refreshDefaults after its GET settled, which ends handleOverride.
DefaultsSettle(i, ok) ==
  /\ i \in 1..Len(vrm.overrides)
  /\ vrm.overrides[i].stage = "defaults"
  /\ Len(vrm.loads) < MaxLoads
  /\ LET o == vrm.overrides[i]
         next == [vrm EXCEPT
                    !.sel = IF ok THEN DefaultsApplied(vrm) ELSE @,
                    !.overrides = Remove(@, i),
                    !.done = [side |-> o.side, code |-> o.code,
                              postFailed |-> o.postFailed]]
     IN  vrm' = LoadEffect(vrm, next)
  /\ UNCHANGED NotVrm

\* A window option is pressed.
SetWindowHours(option) ==
  /\ ~vrm.initialLoading
  /\ option # vrm.windowHours
  /\ Len(vrm.loads) < MaxLoads
  /\ vrm' = LoadEffect(vrm, [vrm EXCEPT !.windowHours = option])
  /\ UNCHANGED NotVrm

\* updateMeta after its await, the meta's last_id changed: loadSeries().
MetaChanged ==
  /\ ~vrm.initialLoading
  /\ Len(vrm.loads) < MaxLoads
  /\ vrm' = LoadSeries(vrm)
  /\ UNCHANGED NotVrm

\* loadSeries after its await: the series of this response, or the catch block.
LoadSettles(i, ok) ==
  /\ i \in 1..Len(vrm.loads)
  /\ vrm' = [vrm EXCEPT
               !.loads = Remove(@, i),
               !.seriesState = IF ok THEN [status |-> "ready", series |-> vrm.loads[i]]
                               ELSE [status |-> "error", series |-> NoSeries]]
  /\ UNCHANGED NotVrm

NextVrm ==
  \/ \E ok \in BOOLEAN : AuxSettles(ok)
  \/ \E side \in Sides, code \in {Codes[1], Codes[2]} : SelectSide(side, code)
  \/ \E i \in 1..Len(vrm.overrides), ok \in BOOLEAN : OverridePost(i, ok)
  \/ \E i \in 1..Len(vrm.overrides), ok \in BOOLEAN : DefaultsSettle(i, ok)
  \/ \E option \in WindowOptions : SetWindowHours(option)
  \/ MetaChanged
  \/ \E i \in 1..Len(vrm.loads), ok \in BOOLEAN : LoadSettles(i, ok)

SpecVrm == InitVrm /\ [][NextVrm]_vars

-----------------------------------------------------------------------------
(* Properties of previewGraph and LineChart *)

HasSeries == fetchState.series # <<>>

\* The value charted for series s (columns 1..4, the sum 5) at index i.
Charted(s, i) == fetchState.series[s].points[i].value

\* The timestamps of series s, in order.
TimesOf(s) ==
  [i \in 1..Len(fetchState.series[s].points) |-> fetchState.series[s].points[i].ts]

SumIndex == NumColumns + 1

\* A sample that is there: neither null nor NaN.
Present(v) == ~IsNull(v) /\ ~IsNaN(v)

\* The value of column c at index i before the forward-fill pass.
Unfilled(c, i) == run.merged[i].values[c]

\* The instants of the points of column c's response that previewGraph keeps.
ValidTimes(c) ==
  IF run.responses[c].present
    THEN {DateParse(run.responses[c].points[n].ts) :
            n \in {m \in 1..Len(run.responses[c].points) :
                     /\ run.responses[c].points[m].ts # ""
                     /\ ~IsNaN(DateParse(run.responses[c].points[m].ts))}}
    ELSE {}

Maximum(S) == CHOOSE x \in S : \A y \in S : y <= x

\* C1: the merged timeline is the union of the valid input instants, each
\* exactly once, strictly increasing, and at least as long as the number of
\* instants of the largest input.
MergeCompleteness ==
  HasSeries =>
    LET tl == TimesOf(1)
    IN  /\ \A c \in Cols : \A t \in ValidTimes(c) :
             Cardinality({i \in 1..Len(tl) : tl[i] = t}) = 1
        /\ \A i \in 1..Len(tl) : \E c \in Cols : tl[i] \in ValidTimes(c)
        /\ \A i, j \in 1..Len(tl) : i < j => tl[i].v < tl[j].v
        /\ \A c \in Cols : Len(tl) >= Cardinality(ValidTimes(c))

\* C2: every series of fetchState.series, the four columns and the sum, has
\* the same sequence of timestamps, hence the same length.
SameTimeline ==
  HasSeries =>
    /\ Len(fetchState.series) = NumColumns + 1
    /\ \A s \in 1..Len(fetchState.series) : TimesOf(s) = TimesOf(1)
    /\ \A s \in 1..Len(fetchState.series) :
         Len(fetchState.series[s].points) = Len(run.merged)

\* C2 witness: a preview is charted whose columns were sampled differently:
\* one response has two instants, another is empty, a column has no KPI.
SameTimelineWitness ==
  /\ fetchState.status = "ready"
  /\ Len(TimesOf(SumIndex)) = 2
  /\ \E c, d, e \in Cols :
       /\ Cardinality(ValidTimes(c)) = 2
       /\ run.responses[d].present /\ run.responses[d].points = <<>>
       /\ ~run.responses[e].present

\* The indexes before i at which column c has a sample of its own.
Earlier(c, i) == {j \in 1..(i - 1) : Present(Unfilled(c, j))}

\* C3: where a column has no value, the forward-fill gives it the most
\* recent earlier value of that same column, and null when there is none.
ForwardFillLaw ==
  HasSeries =>
    \A c \in Cols : \A i \in 1..Len(run.merged) :
      ~Present(Unfilled(c, i)) =>
        IF Earlier(c, i) = {}
          THEN Charted(c, i) = Null
          ELSE Charted(c, i) = Unfilled(c, Maximum(Earlier(c, i)))

\* C3 witness: a gap of one column is filled from its own earlier value
\* while another column holds a different value there, and a leading gap
\* of some column stays null.
ForwardFillWitness ==
  /\ HasSeries
  /\ \E c, d \in Cols : \E i \in 1..Len(run.merged) :
       /\ c # d
       /\ ~Present(Unfilled(c, i))
       /\ Earlier(c, i) # {}
       /\ Present(Unfilled(d, i))
       /\ Charted(c, i) # Charted(d, i)
       /\ Charted(d, 1) = Null

\* The indexes from i on at which column c has a sample of its own.
FromHere(c, i) == {j \in i..Len(run.merged) : Present(Unfilled(c, j))}

\* C4 as stated: a trailing gap (no sample of the column at or after the
\* index) stays null after forward-fill, as a leading gap does.
TrailingGapsStayNull ==
  HasSeries =>
    \A c \in Cols : \A i \in 1..Len(run.merged) :
      FromHere(c, i) = {} => Charted(c, i) = Null

\* C4 as amended: only leading gaps stay null; a trailing gap is filled
\* with the column's last value, as an interior gap is.
OnlyLeadingGapsStayNull ==
  HasSeries =>
    \A c \in Cols : \A i \in 1..Len(run.merged) :
      /\ Charted(c, i) = Null <=> (Earlier(c, i) = {} /\ ~Present(Unfilled(c, i)))
      /\ (FromHere(c, i) = {} /\ Earlier(c, i) # {}) =>
           Charted(c, i) = Unfilled(c, Maximum(Earlier(c, i)))

\* C4 witness: a column's trailing gap is charted with its last value, and a
\* leading gap of a column is charted as null.
TrailingGapWitness ==
  /\ HasSeries
  /\ \E c \in Cols : \E i \in 1..Len(run.merged) :
       FromHere(c, i) = {} /\ Earlier(c, i) # {} /\ Present(Charted(c, i))
  /\ \E c \in Cols : \E i \in 1..Len(run.merged) :
       FromHere(c, i) # {} /\ Charted(c, i) = Null

\* The included columns that hold a value at index i.
Contributing(i) == {c \in Cols : run.includes[c] /\ ~IsNull(Charted(c, i))}

\* The sum of the values at index i of the columns of S, in column order.
RECURSIVE SumOver(_, _)
SumOver(S, i) ==
  IF Cardinality(S) = 1 THEN Charted(Maximum(S), i)
  ELSE Add(SumOver(S \ {Maximum(S)}, i), Charted(Maximum(S), i))

\* C5: the calculated sum is null where no included column holds a value,
\* and else the sum of the values of the included columns that hold one.
SumLaw ==
  HasSeries =>
    \A i \in 1..Len(run.merged) :
      IF Contributing(i) = {}
        THEN Charted(SumIndex, i) = Null
        ELSE Charted(SumIndex, i) = SumOver(Contributing(i), i)

\* C5 witness: at one index the sum is null although a column that is not
\* included holds a value; at another index the sum is a number.
SumWitness ==
  /\ HasSeries
  /\ \E i \in 1..Len(run.merged) :
       /\ Contributing(i) = {}
       /\ \E c \in Cols : ~run.includes[c] /\ Present(Charted(c, i))
  /\ \E i \in 1..Len(run.merged) : Present(Charted(SumIndex, i))

\* The raw sample (point.left ?? point.right ?? null) of column c that
\* previewGraph stores last under the key of index i; null when the column
\* has no point with that key.
RawAt(c, i) ==
  LET pts == run.responses[c].points
      hits == {n \in 1..Len(pts) : pts[n].ts = run.merged[i].ts}
  IN  IF ~run.responses[c].present \/ hits = {} THEN Null
      ELSE Coalesce(pts[Maximum(hits)].left, Coalesce(pts[Maximum(hits)].right, Null))

\* C6: the value charted where a column has a raw sample v is v * k, k the
\* column's factor (a product that is NaN counts as no value), and a
\* position with no raw sample at or before it is charted null.
ScaleLinearity ==
  HasSeries =>
    \A c \in Cols : \A i \in 1..Len(run.merged) :
      LET k == Factor(run.cols[c].scale)
      IN  /\ (Present(RawAt(c, i)) /\ ~IsNaN(Mul(RawAt(c, i), k))) =>
               Charted(c, i) = Mul(RawAt(c, i), k)
          /\ (\A j \in 1..i : ~Present(RawAt(c, j))) => Charted(c, i) = Null

\* C6 witness: a raw sample is charted multiplied by a factor other than 1,
\* and a position of the same preview is charted null.
ScaleWitness ==
  /\ HasSeries
  /\ \E c \in Cols : \E i \in 1..Len(run.merged) :
       /\ IsFinite(RawAt(c, i))
       /\ Charted(c, i) # RawAt(c, i)
       /\ IsFinite(Charted(c, i))
       /\ Charted(c, i) = Mul(RawAt(c, i), Factor(run.cols[c].scale))
  /\ \E c \in Cols : \E i \in 1..Len(run.merged) :
       run.responses[c].present /\ Charted(c, i) = Null

\* C7: the factor of a column is the parsed scale text when that is a
\* finite number and 1 otherwise; it is never NaN or an infinity.  Stated of
\* every scale text the screen holds or has captured for a preview.
ScaleTextsHeld ==
  {columns[c].scale : c \in Cols}
    \cup {inflight[n].cols[c].scale : n \in 1..Len(inflight), c \in Cols}
    \cup {run.cols[c].scale : c \in Cols}

ScaleFactorLaw ==
  \A text \in ScaleTextsHeld :
    /\ IsFinite(Factor(text))
    /\ IF text # "" /\ IsFinite(ParseFloat(text))
         THEN Factor(text) = ParseFloat(text)
         ELSE Factor(text) = Num(1)

\* C7 witness: handleScaleChange has stored a text that parses to Infinity
\* and a preview run with it has charted a sample of that column unscaled.
ScaleFactorWitness ==
  /\ fetchState.status = "ready"
  /\ \E c \in Cols :
       /\ run.cols[c].scale # ""
       /\ ParseFloat(run.cols[c].scale) = PosInf
       /\ \E i \in 1..Len(run.merged) :
            IsFinite(RawAt(c, i)) /\ Charted(c, i) = RawAt(c, i)

\* C8: every value of every series of fetchState.series is null or a finite
\* number.
AllValuesFinite ==
  HasSeries =>
    \A s \in 1..Len(fetchState.series) :
      \A i \in 1..Len(fetchState.series[s].points) :
        IsNull(Charted(s, i)) \/ IsFinite(Charted(s, i))

\* `sorted` after the forward-fill pass, read back from the charted series.
FilledEntries ==
  [i \in 1..Len(run.merged) |->
     [run.merged[i] EXCEPT !.values = [c \in Cols |-> Charted(c, i)]]]

RangeNotDegenerate ==
  Greater(Info(fetchState.series).max, Info(fetchState.series).min)

-----------------------------------------------------------------------------
(* Properties of the LineChart component *)

\* Every value of every series of the chart that is not null.
NonNullValues ==
  UNION {{chartProps.series[s].points[i].value :
            i \in 1..Len(chartProps.series[s].points)} :
           s \in 1..Len(chartProps.series)} \ {Null}

ChartTimeline == Timeline(chartProps.series)

ChartInfo == Info(chartProps.series)

Rendered == Render(chartProps, activeIndex, layoutWidth)

\* C11: when all non-null values of all series are the same finite value v,
\* the value range of the chart has min < v < max.
FlatRangeWidened ==
  \A v \in NonNullValues :
    (NonNullValues = {v} /\ IsFinite(v) /\ Len(ChartTimeline) > 0)
      => Greater(v, ChartInfo.min) /\ Greater(ChartInfo.max, v)

\* C12: when no series holds a non-null value (no series, empty series, or
\* only nulls), the range is (0, 1), hasData is false, and the chart renders
\* the placeholder and no path, no cursor line and no tooltip.
EmptyChartPlaceholder ==
  NonNullValues = {}
    => /\ ChartInfo.min = Num(0)
       /\ ChartInfo.max = Num(1)
       /\ ~ChartInfo.hasData
       /\ Rendered.placeholder
       /\ Rendered.paths = <<>>
       /\ ~Rendered.cursor
       /\ ~Rendered.tooltip

\* C12 witness: an interactive chart whose timeline has samples, all null,
\* with the cursor index set by a gesture.
EmptyChartWitness ==
  /\ NonNullValues = {}
  /\ Len(ChartTimeline) > 1
  /\ chartProps.interactive
  /\ ~IsNull(activeIndex)
  /\ Rendered.placeholder

\* The path LineChart builds for series s.
ChartPath(s) ==
  BuildPath(chartProps.series[s].points, ChartWidth(layoutWidth),
            ChartHeight(chartProps.height), ChartInfo.min, ChartInfo.max)

Moves(path) == Cardinality({j \in 1..Len(path) : path[j].op = "M"})

\* Position i of series s is strictly between the first and the last and null.
InteriorNull(s, i) ==
  /\ 1 < i
  /\ i < Len(chartProps.series[s].points)
  /\ IsNull(chartProps.series[s].points[i].value)

\* Position i of series s holds a value buildPath can place: not null, not
\* NaN, and with a y that is a number.
Plotted(s, i) ==
  LET value == chartProps.series[s].points[i].value
  IN  /\ ~IsNull(value)
      /\ ~IsNaN(value)
      /\ ~IsNaN(PathY(value, ChartHeight(chartProps.height), ChartInfo.min,
                      PathRange(ChartInfo.min, ChartInfo.max)))

\* C13: a series with a null at an interior position gets a path of at least
\* two segments (two 'M' commands).
PathGapLaw ==
  \A s \in 1..Len(chartProps.series) :
    \A i \in 1..Len(chartProps.series[s].points) :
      InteriorNull(s, i) => Moves(ChartPath(s)) >= 2

\* C13, amended: a null at an interior position with a plotted sample
\* somewhere before it and somewhere after it gives at least two 'M'
\* commands, and an 'L' command is only ever drawn to a sample whose
\* predecessor in the series is plotted (no line crosses a gap).
PathGapLawBetweenValues ==
  \A s \in 1..Len(chartProps.series) :
    LET points == chartProps.series[s].points
        path == ChartPath(s)
    IN  /\ \A i \in 1..Len(points) :
             (/\ InteriorNull(s, i)
              /\ \E j \in 1..(i - 1) : Plotted(s, j)
              /\ \E j \in (i + 1)..Len(points) : Plotted(s, j))
               => Moves(path) >= 2
        /\ \A c \in 1..Len(path) :
             path[c].op = "L"
               => \E i \in 2..Len(points) :
                    /\ path[c].x = PathX(i - 1, Len(points), ChartWidth(layoutWidth))
                    /\ Plotted(s, i)
                    /\ Plotted(s, i - 1)

\* C13 witness: a series 1, null, 1 drawn as two segments by a chart whose
\* layout has been measured.
PathGapWitness ==
  /\ Len(chartProps.series) > 0
  /\ layoutWidth # Null
  /\ Len(ChartTimeline) = 3
  /\ InteriorNull(1, 2)
  /\ Plotted(1, 1)
  /\ Plotted(1, 3)
  /\ Moves(ChartPath(1)) = 2

PlotOriginX == MarginX(layoutWidth)

PlotWidth == ChartWidth(layoutWidth)

Touched == gesture.kind \in {"grant", "move", "release"}

\* C14: a pointer left of the plot selects index 0 and a pointer right of
\* the plot selects the last index.
PointerClamp ==
  Touched =>
    /\ gesture.x < PlotOriginX => activeIndex = Px(0)
    /\ gesture.x > PlotOriginX + PlotWidth
         => activeIndex = Px(Len(ChartTimeline) - 1)

\* C14 witness: a pointer 500 right of the plot on a three-sample timeline.
PointerClampWitness ==
  /\ Touched
  /\ gesture.x > PlotOriginX + PlotWidth + 400
  /\ Len(ChartTimeline) = 3
  /\ activeIndex = Px(2)

\* The pointer positions the monotonicity of the mapping is checked over,
\* in increasing order.
ProbeXs == <<-484, 15, 16, 17, 80, 110, 116, 204, 205, 272, 273, 772>>

\* C15: after a pointer event at x the index is the one nearest to
\* ratio * (sampleCount - 1), ratio = (clampedX - plotOriginX) / plotWidth;
\* it lies in 0..sampleCount - 1, is 0 for one sample, and the mapping is
\* non-decreasing in x.
PointerMapping ==
  LET n == Len(ChartTimeline)
      clampedX == Min2(Max2(gesture.x, PlotOriginX), PlotOriginX + PlotWidth)
  IN  /\ Touched =>
           /\ n >= 1
           /\ IsFinite(activeIndex)
           /\ activeIndex.v \in 0..(n - 1)
           /\ n = 1 => activeIndex.v = 0
           /\ LET off == (clampedX - PlotOriginX) * (n - 1) - activeIndex.v * PlotWidth
              IN  2 * off <= PlotWidth /\ -2 * off <= PlotWidth
      /\ \A j \in 1..(Len(ProbeXs) - 1) :
           TouchIndex(ProbeXs[j], layoutWidth, n)
             <= TouchIndex(ProbeXs[j + 1], layoutWidth, n)

\* C15 witness: a pointer inside the plot that rounds up to the middle sample.
PointerMappingWitness ==
  /\ Touched
  /\ gesture.x = 116
  /\ Len(ChartTimeline) = 3
  /\ activeIndex = Px(1)

\* The timestamps of the timeline that are numbers, in timeline order.
ValidTs == SelectSeq([i \in 1..Len(ChartTimeline) |-> ChartTimeline[i].ts], IsFinite)

\* C16: there are three x ticks, at the first timestamp, at the midpoint
\* between first and last, and at the last timestamp (tick times are in
\* halves); with a single timestamp t0 all three are at t0.
XTicksLaw ==
  \A now1, now2 \in Nows :
    LET ticks == XTicks(chartProps.series, layoutWidth, now1, now2)
    IN  /\ Len(ticks) = 3
        /\ ValidTs # <<>> =>
             /\ ticks[1].time = 2 * ValidTs[1].v
             /\ ticks[2].time = ValidTs[1].v + ValidTs[Len(ValidTs)].v
             /\ ticks[3].time = 2 * ValidTs[Len(ValidTs)].v
        /\ Len(ValidTs) = 1 =>
             \A t \in 1..3 : ticks[t].time = 2 * ValidTs[1].v

\* C16 witness: a timeline with exactly one timestamp, in a chart whose
\* layout has been measured.
XTicksWitness ==
  /\ layoutWidth # Null
  /\ Len(ChartTimeline) = 1
  /\ Len(ValidTs) = 1
  /\ ChartInfo.hasData

CursorPersistence ==
  /\ [][(~IsNull(activeIndex) /\ Len(Timeline(chartProps'.series)) > 0)
          => ~IsNull(activeIndex')]_vars
  /\ [][gesture'.kind = "terminate" /\ gesture' # gesture
          => activeIndex' = activeIndex]_vars
  /\ [](gesture.kind = "release" => ~IsNull(activeIndex))

\* C20 witness: the gesture was terminated and the cursor index is still set.
CursorPersistenceWitness ==
  /\ gesture.kind = "terminate"
  /\ ~IsNull(activeIndex)

-----------------------------------------------------------------------------
(* Properties of ApiClient *)

\* C18: every request is sent with the per-call timeoutMs if one was given,
\* else with the client's default timeoutMs.
DefaultTimeoutApplied ==
  \A i \in 1..Len(sent) :
    sent[i].timeoutMs = Coalesce(sent[i].perCall, client.timeoutMs)

-----------------------------------------------------------------------------
(* Order of the transforms of previewGraph *)

\* The columns with every scale text replaced by '1'.
UnitScale(cols) == [c \in Cols |-> [cols[c] EXCEPT !.scale = "1"]]

\* resample, then forward-fill, then scale: the raw samples on the merged
\* timeline, filled, and only then multiplied by the column's factor (a null
\* stays null).
ScaledAfterFill(responses, cols) ==
  LET filled == SortedEntries(responses, UnitScale(cols))
  IN  [i \in 1..Len(filled) |->
         [filled[i] EXCEPT
            !.values = [c \in Cols |->
                          IF IsNull(filled[i].values[c]) THEN Null
                          ELSE Mul(filled[i].values[c], Factor(cols[c].scale))]]]

\* C19: the series previewGraph charts are the ones the order resample,
\* forward-fill, scale gives, the sum being taken over those values.
TransformOrder ==
  HasSeries =>
    LET ordered == ScaledAfterFill(run.responses, run.cols)
    IN  fetchState.series
          = ChartSeriesOf(ordered) \o <<SumSeriesOf(ordered, run.includes)>>

\* The two orders agree on every preview whose samples are all finite or null.
TransformOrderFinite ==
  (\A c \in Cols : \A i \in 1..Len(run.responses[c].points) :
      /\ ~IsInf(run.responses[c].points[i].left)
      /\ ~IsInf(run.responses[c].points[i].right))
    => TransformOrder

-----------------------------------------------------------------------------
(* Properties settled on the chart geometry and on previewGraph's failures *)

\* The positions of series s that buildPath draws, in order.
PlottedIndexes(s) ==
  SelectSeq([i \in 1..Len(chartProps.series[s].points) |-> i],
            LAMBDA i : Plotted(s, i))

\* C21: buildPath puts sample i (from 0) of count > 1 samples at
\* i * plotWidth / (count - 1) and the only sample of a single-sample series
\* at plotWidth / 2, which is where the cursor line of that index is drawn
\* (the path is translated by marginX).  Positions are in hundredths.
PathXLaw ==
  \A s \in 1..Len(chartProps.series) :
    LET count == Len(chartProps.series[s].points)
        path == ChartPath(s)
        drawn == PlottedIndexes(s)
    IN  \A j \in 1..Len(path) :
          /\ path[j].x = IF count > 1
                           THEN RoundDiv(100 * (drawn[j] - 1) * PlotWidth, count - 1)
                           ELSE 50 * PlotWidth
          /\ path[j].x + 100 * PlotOriginX
               = CursorX(drawn[j] - 1, layoutWidth, Len(ChartTimeline))

\* C21 for series of more than one sample only.
PathXLawSeveral ==
  \A s \in 1..Len(chartProps.series) :
    LET count == Len(chartProps.series[s].points)
        path == ChartPath(s)
        drawn == PlottedIndexes(s)
    IN  count > 1 =>
          \A j \in 1..Len(path) :
            /\ path[j].x = RoundDiv(100 * (drawn[j] - 1) * PlotWidth, count - 1)
            /\ path[j].x + 100 * PlotOriginX
                 = CursorX(drawn[j] - 1, layoutWidth, Len(ChartTimeline))

\* What the inline chart of CombinedMathScreen renders for fetchState.series.
PreviewChart ==
  Render([series |-> fetchState.series, interactive |-> FALSE, height |-> 260],
         Null, Null)

\* C22: a preview that fails is caught: the step that settles a preview
\* leaves status 'ready' or 'error', never 'loading'; status 'error' comes
\* with no series, a message, and the chart's placeholder; status 'loading'
\* means a preview is still awaited.
PreviewFailureCaught ==
  /\ [](fetchState.status = "error" =>
          /\ fetchState.series = <<>>
          /\ fetchState.error # ""
          /\ PreviewChart.placeholder
          /\ PreviewChart.paths = <<>>)
  /\ [](fetchState.status = "loading" => Len(inflight) > 0)
  /\ [][Len(inflight') < Len(inflight)
          => fetchState'.status \in {"ready", "error"}]_vars

\* C22 witness: a preview failed after an earlier one had charted data.
PreviewFailureWitness ==
  /\ fetchState.status = "error"
  /\ fetchState.error = "request"
  /\ run.merged # <<>>
  /\ inflight = <<>>

-----------------------------------------------------------------------------
(* Properties settled on httpRequest *)

\* C24: of httpRequest with timeoutMs > 0: a timer that fires before the
\* fetch settles rejects the promise with ApiError 408, never with the raw
\* abort error; once the fetch has settled no abort happens; and a settled
\* promise leaves no timer armed.
TimeoutGives408 ==
  (http.pc # "idle" /\ ~IsNull(http.timeoutMs) /\ http.timeoutMs.v > 0) =>
    /\ http.timer = "fired" =>
         /\ http.abortedIn = "fetching"
         /\ http.pc = "rejected"
         /\ http.outcome = "ApiError408"
    /\ http.pc \in {"resolved", "rejected"} => http.timer # "armed"

\* C24 where AbortController and DOMException are both globals: the timer
\* is armed, its abort gives ApiError 408, and every settled call has
\* cleared it.
TimeoutGives408InBrowser ==
  (/\ http.pc # "idle" /\ ~IsNull(http.timeoutMs) /\ http.timeoutMs.v > 0
   /\ http.controller /\ http.domException) =>
    /\ http.timer # "none"
    /\ http.timer = "fired" => (http.pc = "rejected" /\ http.outcome = "ApiError408")
    /\ http.pc \in {"resolved", "rejected"} => http.timer # "armed"

-----------------------------------------------------------------------------
(* Properties settled on the data hooks *)

\* C25: in useDashboardData and useSchedulerFeed the step that stores a
\* successful response issues no request: only the interval and refresh() do.
NoRefetchOnSuccess ==
  [][(hook.kind \in Feeds /\ hook'.loaded > hook.loaded)
       => hook'.issued = hook.issued]_vars

\* C26: in useDashboardData and useSchedulerFeed status 'error' implies
\* data = null, whatever the interleaving of the fetches.
ErrorOnlyWithoutData ==
  (hook.kind \in Feeds /\ hook.status = "error") => hook.data = 0

\* C28: once a data hook has unmounted no step changes its status, data or
\* items, error or refreshing, and no step issues a request.
UnmountedFrozen ==
  [][~hook.mounted =>
       /\ hook'.status = hook.status
       /\ hook'.data = hook.data
       /\ hook'.error = hook.error
       /\ hook'.refreshing = hook.refreshing
       /\ hook'.issued = hook.issued]_vars

\* C28 witness: every fetch has settled after the unmount and the hook still
\* shows the 'loading' it had when it unmounted.
UnmountedFrozenWitness ==
  /\ ~hook.mounted
  /\ hook.status = "loading"
  /\ hook.fetches = <<>>
  /\ hook.issued > 1

\* C29: once useSystemStatus has loaded data, its data is never null again.
StatusDataKept ==
  (hook.kind = "status" /\ hook.loaded > 0) => hook.data # 0

RefreshAwaited == \E i \in 1..Len(hook.fetches) : hook.fetches[i].mode = "refresh"

Refreshable == hook.kind # "status" /\ hook.mounted

\* C30: for a mounted useDashboardData, useSchedulerFeed or useSettingsCatalog
\* a refresh() call sets refreshing; refreshing is true only while a refresh
\* fetch is awaited; and, every fetch settling, refreshing becomes false again.
RefreshingNeverStuck ==
  /\ []((Refreshable /\ hook.refreshing) => RefreshAwaited)
  /\ [][(Refreshable /\ Len(hook'.fetches) > Len(hook.fetches)
           /\ hook'.fetches[Len(hook'.fetches)].mode = "refresh")
          => hook'.refreshing]_vars
  /\ ((Refreshable /\ hook.refreshing) ~> (~hook.refreshing \/ ~hook.mounted))

\* C30 witness: useSettingsCatalog after a refresh that failed: the error is
\* set, the status is still 'ready', refreshing is false again.
RefreshingWitness ==
  /\ hook.kind = "catalog"
  /\ hook.mounted
  /\ hook.status = "ready"
  /\ hook.error = "message"
  /\ ~hook.refreshing
  /\ hook.fetches = <<>>

-----------------------------------------------------------------------------
(* Properties settled on VrmDashboardScreen *)

\* C23: when handleOverride has completed for a pick whose POST failed, and
\* that pick is still the latest on its side, the side's selection is the
\* code the user picked.
FailedOverrideKeepsPick ==
  (/\ vrm.done.side # ""
   /\ vrm.done.postFailed
   /\ vrm.chosen[vrm.done.side] = vrm.done.code)
    => vrm.sel[vrm.done.side] = vrm.done.code

\* C27: series shown as 'ready' were fetched for the current left and right
\* codes and the current window.
ReadySeriesAreCurrent ==
  vrm.seriesState.status = "ready" =>
    vrm.seriesState.series = [left |-> vrm.sel.left, right |-> vrm.sel.right,
                              windowHours |-> vrm.windowHours]

=============================================================================
